---- MODULE Spec2Model ----
(***************************************************************************)
(* heavymath_lib: the favorite-annotated list hooks.                       *)
(*                                                                         *)
(* Every hook of the library (useFootballLeagues, useHandballGames, ...)   *)
(* is the same procedure: it reads the result of an entity source and the  *)
(* result of the favorites source, returns the entity list annotated with  *)
(* a favorited flag together with status flags, and returns setFavorited,  *)
(* an asynchronous function that issues one add or remove mutation.        *)
(*                                                                         *)
(* The model is one mounted hook.  Its state is the arguments it was last   *)
(* called with, the arguments it last passed to its two sources, what the  *)
(* two sources last returned, what the hook returned from its last         *)
(* evaluation, the calls of setFavorited made so far and the mutateAsync   *)
(* calls they issued.                                                      *)
(***************************************************************************)
EXTENDS Integers, Sequences, FiniteSets, TLC

VARIABLES
    hook,         \* which hook of the library is mounted (fixed per behaviour)
    props,        \* the arguments of the last evaluation: indexerClient, walletAddress, options
    asked,        \* the arguments the last evaluation passed to the two sources
    query,        \* what the entity source (use<Sport><Kind>Api) last returned
    favs,         \* what useFavorites last returned: favorites, isLoading, isError, error
    out,          \* what the hook returned from its last evaluation
    calls,        \* the setFavorited calls made so far, in call order
    addCalls,     \* the addFavorite.mutateAsync calls issued so far, in order
    removeCalls,  \* the removeFavorite.mutateAsync calls issued so far, in order
    store         \* the favorites store behind useFavorites, where a specification follows it

vars == <<hook, props, asked, query, favs, out, calls, addCalls, removeCalls, store>>

-----------------------------------------------------------------------------
(* Bounds of the model. *)

\* longest entity list the entity source delivers
MaxEntities == 2
\* longest favorites snapshot the favorites source delivers
MaxFavorites == 2
\* number of setFavorited calls made in one behaviour
MaxCalls == 2
\* number of setFavorited calls made in one behaviour in which the arguments change
MaxPropsCalls == 1
MaxElsewhere == 1

-----------------------------------------------------------------------------
(* Values. *)

Null == "null"
Undefined == "undefined"
\* the entity source's data field: undefined until a response has arrived
NoData == [defined |-> FALSE]
Data(l) == [defined |-> TRUE, response |-> l]

\* numeric entity identifiers, in the order the entity source lists them
IdList == <<33, 34>>
Ids == {IdList[i] : i \in DOMAIN IdList}
\* MMA weight-class names: the entity is the string itself
CategoryList == <<"Flyweight", "Heavyweight">>
CategoryNames == {CategoryList[i] : i \in DOMAIN CategoryList}
\* the Error objects a failed fetch carries
Errors == {"Failed to fetch leagues"}
\* the favorite records' own handles (WalletFavoriteData.id)
Handles == 1..MaxFavorites

\* the arguments a component gives the hook
IndexerClients == {"mockIndexerClient", "otherIndexerClient"}
WalletAddresses == {Undefined, "0x1234567890abcdef"}
\* options?: { params?, enabled? }
NoOptions == [defined |-> FALSE]
Options(p, e) == [defined |-> TRUE, params |-> p, enabled |-> e]
OptionsGiven ==
    {NoOptions, Options("{ country: 'England' }", Undefined), Options(Undefined, "false")}
Props(client, wallet, options) ==
    [indexerClient |-> client, walletAddress |-> wallet, options |-> options]
AllProps ==
    {Props(c, w, o) : c \in IndexerClients, w \in WalletAddresses, o \in OptionsGiven}
\* useFootballLeagues(mockIndexerClient, mockWalletAddress)
DefaultProps == Props("mockIndexerClient", "0x1234567890abcdef", NoOptions)

SeqUpTo(S, n) == UNION {[1..k -> S] : k \in 0..n}

-----------------------------------------------------------------------------
(* The exports of index.ts beside the hooks.                               *)

VERSION == "0.0.1"

\* placeholder with a version literal of its own
placeholderOutdated ==
    [name |-> "@heavymath/lib", version |-> "0.0.0",
     description |-> "Business logic library for Heavymath prediction market platform"]

placeholder ==
    [name |-> "@heavymath/lib", version |-> VERSION,
     description |-> "Business logic library for Heavymath prediction market platform"]

-----------------------------------------------------------------------------
(* The hooks of the library: the scope triple each passes to useFavorites  *)
(* and the place its annotation reads the entity identifier from.          *)

\* Hook with the type constant of the leagues hook the file was copied from
HookTypeLeague(n, sub, t, path) ==
    [name |-> n, category |-> "sports", subcategory |-> sub, type |-> "league", idPath |-> path]

Hook(n, sub, t, path) ==
    [name |-> n, category |-> "sports", subcategory |-> sub, type |-> t, idPath |-> path]

Hooks ==
    { Hook("useBaseballGames", "baseball", "game", "id"),
      Hook("useBaseballTeams", "baseball", "team", "id"),
      Hook("useBasketballLeagues", "basketball", "league", "id"),
      Hook("useBasketballTeams", "basketball", "team", "id"),
      Hook("useFootballLeagues", "football", "league", "league.id"),
      Hook("useFootballTeams", "football", "team", "team.id"),
      Hook("useFootballMatches", "football", "match", "fixture.id"),
      Hook("useHandballGames", "handball", "game", "id"),
      Hook("useHandballLeagues", "handball", "league", "id"),
      Hook("useMmaCategories", "mma", "category", "self"),
      Hook("useMmaFighters", "mma", "fighter", "id"),
      Hook("useMmaFights", "mma", "fight", "id"),
      Hook("useNflGames", "nfl", "game", "id"),
      Hook("useNflLeagues", "nfl", "league", "league.id"),
      Hook("useNflTeams", "nfl", "team", "id"),
      Hook("useRugbyLeagues", "rugby", "league", "id"),
      Hook("useRugbyGames", "rugby", "game", "id"),
      Hook("useVolleyballGames", "volleyball", "game", "id"),
      Hook("useVolleyballLeagues", "volleyball", "league", "id"),
      Hook("useVolleyballTeams", "volleyball", "team", "id") }

-----------------------------------------------------------------------------
(* String(n) for a non-negative integer: its decimal digits.               *)

Digit(d) ==
    CASE d = 0 -> "0" [] d = 1 -> "1" [] d = 2 -> "2" [] d = 3 -> "3"
      [] d = 4 -> "4" [] d = 5 -> "5" [] d = 6 -> "6" [] d = 7 -> "7"
      [] d = 8 -> "8" [] d = 9 -> "9"

RECURSIVE String(_)
String(n) == IF n < 10 THEN Digit(n) ELSE String(n \div 10) \o Digit(n % 10)

-----------------------------------------------------------------------------
(* Entities.  An entity of a numeric-id hook is a record of the ids found  *)
(* at the places an identifier can sit in a response item; the place the   *)
(* hook does not designate holds an id of something else (the league of a  *)
(* fixture, the venue of a team).  An MMA category is the name itself.     *)

Other(x) == CHOOSE y \in Ids : y # x

EntityAt(path, x) ==
    [id      |-> IF path = "id" THEN x ELSE Other(x),
     league  |-> IF path = "league.id" THEN x ELSE Other(x),
     team    |-> IF path = "team.id" THEN x ELSE Other(x),
     fixture |-> IF path = "fixture.id" THEN x ELSE Other(x)]

EntitiesOf(h) ==
    IF h.idPath = "self" THEN CategoryNames
    ELSE {EntityAt(h.idPath, x) : x \in Ids}

\* the ids a caller passes to this hook's setFavorited
CallIdsOf(h) == IF h.idPath = "self" THEN CategoryNames ELSE Ids

\* the itemId values the records of this hook's scope carry
ItemIdList(h) ==
    IF h.idPath = "self" THEN CategoryList ELSE [i \in DOMAIN IdList |-> String(IdList[i])]

\* every entity of the hook, as the entity source lists them
Catalogue(h) ==
    IF h.idPath = "self" THEN CategoryList
    ELSE [i \in DOMAIN IdList |-> EntityAt(h.idPath, IdList[i])]

-----------------------------------------------------------------------------
(* What the two sources return.                                            *)

\* a favorite record of the hook's scope
Favorite(h, handle, itemId) ==
    [id |-> handle, itemId |-> itemId,
     category |-> h.category, subcategory |-> h.subcategory, type |-> h.type]

\* the shapes of favorites snapshots, as <<handle, index of the itemId>> pairs:
\* the store's handles are keys, so no handle repeats in a snapshot
SnapshotShapes ==
    { s \in SeqUpTo(Handles \X (1..2), MaxFavorites) :
        \A i, j \in DOMAIN s : i # j => s[i][1] # s[j][1] }

Snapshots(h) ==
    { [i \in DOMAIN s |-> Favorite(h, s[i][1], ItemIdList(h)[s[i][2]])] : s \in SnapshotShapes }

EntityLists(h) == SeqUpTo(EntitiesOf(h), MaxEntities)

\* the results of the entity source: in flight, failed, disabled, delivered
LoadingQuery == [data |-> NoData, isLoading |-> TRUE, isError |-> FALSE, error |-> Null]
FailedQuery(e) == [data |-> NoData, isLoading |-> FALSE, isError |-> TRUE, error |-> e]
IdleQuery == [data |-> NoData, isLoading |-> FALSE, isError |-> FALSE, error |-> Null]
SuccessQuery(l) == [data |-> Data(l), isLoading |-> FALSE, isError |-> FALSE, error |-> Null]

QueryResults(h) ==
    {LoadingQuery, IdleQuery} \cup {FailedQuery(e) : e \in Errors}
        \cup {SuccessQuery(l) : l \in EntityLists(h)}

\* the results of the favorites source: in flight, failed, delivered
LoadingFavorites == [favorites |-> <<>>, isLoading |-> TRUE, isError |-> FALSE, error |-> Null]
FailedFavorites(e) == [favorites |-> <<>>, isLoading |-> FALSE, isError |-> TRUE, error |-> e]
SuccessFavorites(s) == [favorites |-> s, isLoading |-> FALSE, isError |-> FALSE, error |-> Null]

FavoritesResults(h) ==
    {LoadingFavorites} \cup {FailedFavorites(e) : e \in Errors}
        \cup {SuccessFavorites(s) : s \in Snapshots(h)}

\* the favorites store: the records it holds, in the order it lists them; a
\* specification that lets the favorites source deliver any snapshot does not
\* follow the store
NotFollowed == [followed |-> FALSE, records |-> <<>>, atMount |-> <<>>]
\* a followed store; atMount keeps the records it held when the hook was mounted
Store(records) == [followed |-> TRUE, records |-> records, atMount |-> records]

\* the records of a scope triple, in the store's order
Scoped(records, triple) ==
    SelectSeq(records, LAMBDA r : /\ r.category = triple.category
                                  /\ r.subcategory = triple.subcategory
                                  /\ r.type = triple.type)

\* addFavorite.isPending / removeFavorite.isPending of the favorites source
IsPending(log) == \E i \in DOMAIN log : log[i].status = "pending"

-----------------------------------------------------------------------------
(* The body of a hook.                                                     *)

\* new Set(favorites.map(f => f.itemId))
FavoritedIds(favorites) == {favorites[i].itemId : i \in DOMAIN favorites}

\* EntityId of a nested-id hook copied from the leagues hook: it reads league.id
EntityIdLeague(h, e) ==
    CASE h.idPath = "id" -> e.id
      [] OTHER -> e.league

\* the id the annotation reads from an entity
EntityId(h, e) ==
    CASE h.idPath = "id" -> e.id
      [] h.idPath = "league.id" -> e.league
      [] h.idPath = "team.id" -> e.team
      [] h.idPath = "fixture.id" -> e.fixture

\* String(league.id), or the category name as it is
EntityKey(h, e) == IF h.idPath = "self" THEN e ELSE String(EntityId(h, e))

\* Annotate as a hook copied from a top-level-id hook would be: it reads e.id
AnnotateTopLevelId(h, e, favoritedIds) ==
    IF h.idPath = "self"
    THEN [name |-> e, favorited |-> (e \in favoritedIds)]
    ELSE ("favorited" :> (String(e.id) \in favoritedIds)) @@ e

\* Annotate that builds a new object of the id and the flag instead of spreading
AnnotateIdOnly(h, e, favoritedIds) ==
    IF h.idPath = "self"
    THEN [name |-> e, favorited |-> (e \in favoritedIds)]
    ELSE [id |-> e.id, favorited |-> (EntityKey(h, e) \in favoritedIds)]

\* Annotate of the categories hook written after the numeric-id hooks: { id, favorited }
AnnotateCategoryAsId(h, e, favoritedIds) ==
    IF h.idPath = "self"
    THEN [id |-> e, favorited |-> (e \in favoritedIds)]
    ELSE ("favorited" :> (EntityKey(h, e) \in favoritedIds)) @@ e

\* { ...league, favorited: favoritedIds.has(String(league.id)) }
Annotate(h, e, favoritedIds) ==
    IF h.idPath = "self"
    THEN [name |-> e, favorited |-> (e \in favoritedIds)]
    ELSE ("favorited" :> (EntityKey(h, e) \in favoritedIds)) @@ e

\* leaguesQuery.data?.response ?? []
Response(q) == IF q.data.defined THEN q.data.response ELSE <<>>

\* response.map(league => ...)
Items(h, q, favorites) ==
    [i \in DOMAIN Response(q) |-> Annotate(h, Response(q)[i], FavoritedIds(favorites))]

\* leaguesQuery.isLoading || favoritesLoading
IsLoading(q, f) == q.isLoading \/ f.isLoading

\* UseHook that also reports a pending mutation as loading
UseHookBusy(h, q, f, adds, removes) ==
    [items |-> Items(h, q, f.favorites),
     isLoading |-> IsLoading(q, f) \/ IsPending(adds) \/ IsPending(removes),
     isError |-> q.isError,
     error |-> q.error,
     setFavorited |-> [favorites |-> f.favorites],
     favoritesLoading |-> f.isLoading,
     addFavoritePending |-> IsPending(adds),
     removeFavoritePending |-> IsPending(removes)]

\* UseHook that also surfaces the failure of the favorites fetch
UseHookAnyError(h, q, f, adds, removes) ==
    [items |-> Items(h, q, f.favorites),
     isLoading |-> IsLoading(q, f),
     isError |-> q.isError \/ f.isError,
     error |-> IF q.isError THEN q.error ELSE f.error,
     setFavorited |-> [favorites |-> f.favorites],
     favoritesLoading |-> f.isLoading,
     addFavoritePending |-> IsPending(adds),
     removeFavoritePending |-> IsPending(removes)]

\* UseHook that reports a missing response as an error
UseHookNoDataError(h, q, f, adds, removes) ==
    [items |-> Items(h, q, f.favorites),
     isLoading |-> IsLoading(q, f),
     isError |-> q.isError \/ ~q.data.defined,
     error |-> q.error,
     setFavorited |-> [favorites |-> f.favorites],
     favoritesLoading |-> f.isLoading,
     addFavoritePending |-> IsPending(adds),
     removeFavoritePending |-> IsPending(removes)]

\* the favorites an optimistic hook would show: the snapshot and every add not failed
Optimistic(h, favorites, adds) ==
    favorites \o [i \in DOMAIN adds |->
                    Favorite(h, 0, IF adds[i].status = "error" THEN Null ELSE adds[i].arg.id)]

\* UseHook with an optimistic update of the annotated list
UseHookOptimistic(h, q, f, adds, removes) ==
    [items |-> Items(h, q, Optimistic(h, f.favorites, adds)),
     isLoading |-> IsLoading(q, f),
     isError |-> q.isError,
     error |-> q.error,
     setFavorited |-> [favorites |-> f.favorites],
     favoritesLoading |-> f.isLoading,
     addFavoritePending |-> IsPending(adds),
     removeFavoritePending |-> IsPending(removes)]

\* UseHook that gives no list until the favorites fetch has delivered
UseHookFavoritesRequired(h, q, f, adds, removes) ==
    [items |-> IF f.isError \/ f.isLoading THEN <<>> ELSE Items(h, q, f.favorites),
     isLoading |-> IsLoading(q, f),
     isError |-> q.isError,
     error |-> q.error,
     setFavorited |-> [favorites |-> f.favorites],
     favoritesLoading |-> f.isLoading,
     addFavoritePending |-> IsPending(adds),
     removeFavoritePending |-> IsPending(removes)]

\* UseHook with one pending flag for both mutations
UseHookSharedPending(h, q, f, adds, removes) ==
    [items |-> Items(h, q, f.favorites),
     isLoading |-> IsLoading(q, f),
     isError |-> q.isError,
     error |-> q.error,
     setFavorited |-> [favorites |-> f.favorites],
     favoritesLoading |-> f.isLoading,
     addFavoritePending |-> IsPending(adds) \/ IsPending(removes),
     removeFavoritePending |-> IsPending(adds) \/ IsPending(removes)]

\* UseHook that remembers a failed add in a state of its own and reports it
UseHookRemembers(h, q, f, adds, removes) ==
    [items |-> Items(h, q, f.favorites),
     isLoading |-> IsLoading(q, f),
     isError |-> q.isError \/ (\E i \in DOMAIN adds : adds[i].status = "error"),
     error |-> q.error,
     setFavorited |-> [favorites |-> f.favorites],
     favoritesLoading |-> f.isLoading,
     addFavoritePending |-> IsPending(adds),
     removeFavoritePending |-> IsPending(removes)]

\* the object the hook returns; setFavorited is the closure over favorites
UseHook(h, q, f, adds, removes) ==
    [items |-> Items(h, q, f.favorites),
     isLoading |-> IsLoading(q, f),
     isError |-> q.isError,
     error |-> q.error,
     setFavorited |-> [favorites |-> f.favorites],
     favoritesLoading |-> f.isLoading,
     addFavoritePending |-> IsPending(adds),
     removeFavoritePending |-> IsPending(removes)]

\* UseApiArgs with a default for missing options: options ?? {}
UseApiArgsDefaulted(p) ==
    <<IF p.options.defined THEN p.options ELSE Options(Undefined, Undefined)>>

\* useHandballLeaguesApi(options): the argument list
UseApiArgs(p) == <<p.options>>

\* UseFavoritesArgs with the type of the leagues hook this one was copied from
UseFavoritesArgsCopied(h, p) ==
    <<p.indexerClient, p.walletAddress,
      [category |-> h.category, subcategory |-> h.subcategory, type |-> "league"]>>

\* useFavorites(indexerClient, walletAddress, {category, subcategory, type}): the argument list
UseFavoritesArgs(h, p) ==
    <<p.indexerClient, p.walletAddress,
      [category |-> h.category, subcategory |-> h.subcategory, type |-> h.type]>>

\* the calls one evaluation of the hook makes to its two sources
SourceCalls(h, p) == [api |-> UseApiArgs(p), favorites |-> UseFavoritesArgs(h, p)]

-----------------------------------------------------------------------------
(* The state after the first evaluation: both fetches in flight.           *)

Mounted(hs, ps) ==
    /\ hook \in hs
    /\ props \in ps
    /\ asked = SourceCalls(hook, props)
    /\ query = LoadingQuery
    /\ favs = LoadingFavorites
    /\ calls = <<>>
    /\ addCalls = <<>>
    /\ removeCalls = <<>>
    /\ out = UseHook(hook, query, favs, addCalls, removeCalls)

\* the component renders again with other arguments: the hook is evaluated again
Rerender(p) ==
    /\ props' = p
    /\ asked' = SourceCalls(hook, props')
    /\ out' = UseHook(hook, query, favs, addCalls, removeCalls)
    /\ UNCHANGED <<hook, query, favs, calls, addCalls, removeCalls, store>>

\* the entity source returns a new result and the hook is evaluated again
EntitySourceUpdate(q) ==
    /\ query' = q
    /\ asked' = SourceCalls(hook, props)
    /\ out' = UseHook(hook, query', favs, addCalls, removeCalls)
    /\ UNCHANGED <<hook, props, favs, calls, addCalls, removeCalls, store>>

\* FavoritesSourceUpdate with an effect that writes a first favorite back to the store
FavoritesSourceUpdateSyncs(f) ==
    /\ favs' = f
    /\ addCalls' = IF addCalls = <<>> /\ f.favorites = <<>> /\ ~f.isLoading
                   THEN <<[arg |-> [category |-> hook.category, subcategory |-> hook.subcategory,
                                    type |-> hook.type, id |-> ItemIdList(hook)[1]],
                           status |-> "pending"]>>
                   ELSE addCalls
    /\ asked' = SourceCalls(hook, props)
    /\ out' = UseHook(hook, query, favs', addCalls', removeCalls)
    /\ UNCHANGED <<hook, props, query, calls, removeCalls, store>>

\* the favorites source returns a new result and the hook is evaluated again
FavoritesSourceUpdate(f) ==
    /\ favs' = f
    /\ asked' = SourceCalls(hook, props)
    /\ out' = UseHook(hook, query, favs', addCalls, removeCalls)
    /\ UNCHANGED <<hook, props, query, calls, addCalls, removeCalls, store>>

-----------------------------------------------------------------------------
(* setFavorited.                                                           *)

\* String(leagueId); useMmaCategories passes categoryName as it is
ItemIdOf(h, id) == IF h.idPath = "self" THEN id ELSE String(id)

\* AddArg with the subcategory of the hook this one was copied from
AddArgCopied(h, itemId) ==
    [category |-> h.category, subcategory |-> "football", type |-> h.type, id |-> itemId]

\* the argument of addFavorite.mutateAsync
AddArg(h, itemId) ==
    [category |-> h.category, subcategory |-> h.subcategory, type |-> h.type, id |-> itemId]

\* Find with a predicate that accepts every record
FindFirstRecord(favorites, itemId) == IF favorites # <<>> THEN 1 ELSE 0

\* Find that falls back to the first record on a miss
FindOrFirst(favorites, itemId) ==
    IF \E i \in DOMAIN favorites : favorites[i].itemId = itemId
    THEN CHOOSE i \in DOMAIN favorites :
            /\ favorites[i].itemId = itemId
            /\ \A j \in 1..(i - 1) : favorites[j].itemId # itemId
    ELSE IF favorites # <<>> THEN 1 ELSE 0

\* Find with the comparison negated: f.itemId !== itemId
FindNegated(favorites, itemId) ==
    IF \E i \in DOMAIN favorites : favorites[i].itemId # itemId
    THEN CHOOSE i \in DOMAIN favorites :
            /\ favorites[i].itemId # itemId
            /\ \A j \in 1..(i - 1) : favorites[j].itemId = itemId
    ELSE 0

\* Find from the end: findLast
FindLast(favorites, itemId) ==
    IF \E i \in DOMAIN favorites : favorites[i].itemId = itemId
    THEN CHOOSE i \in DOMAIN favorites :
            /\ favorites[i].itemId = itemId
            /\ \A j \in (i + 1)..Len(favorites) : favorites[j].itemId # itemId
    ELSE 0

\* favorites.find(f => f.itemId === itemId): the index of the first match, 0 for undefined
Find(favorites, itemId) ==
    IF \E i \in DOMAIN favorites : favorites[i].itemId = itemId
    THEN CHOOSE i \in DOMAIN favorites :
            /\ favorites[i].itemId = itemId
            /\ \A j \in 1..(i - 1) : favorites[j].itemId # itemId
    ELSE 0

\* the argument of removeFavorite.mutateAsync
RemoveArg(favorite) == favorite.id

\* Toggle that skips the add when the snapshot already holds the item
ToggleSkipsFavorited(h, favorites, id, favorited) ==
    LET itemId == ItemIdOf(h, id)
        found == Find(favorites, itemId)
    IN  IF favorited /\ found = 0
        THEN [call |-> "add", arg |-> AddArg(h, itemId)]
        ELSE IF ~favorited /\ found # 0
             THEN [call |-> "remove", arg |-> RemoveArg(favorites[found])]
             ELSE [call |-> "none", arg |-> Null]

\* Toggle with the test of the flag inverted
ToggleInverted(h, favorites, id, favorited) ==
    LET itemId == ItemIdOf(h, id)
        found == Find(favorites, itemId)
    IN  IF ~favorited
        THEN [call |-> "add", arg |-> AddArg(h, itemId)]
        ELSE IF found # 0
             THEN [call |-> "remove", arg |-> RemoveArg(favorites[found])]
             ELSE [call |-> "none", arg |-> Null]

\* the body of setFavorited up to its await: the mutateAsync call it makes
Toggle(h, favorites, id, favorited) ==
    LET itemId == ItemIdOf(h, id)
        found == Find(favorites, itemId)
    IN  IF favorited
        THEN [call |-> "add", arg |-> AddArg(h, itemId)]
        ELSE IF found # 0
             THEN [call |-> "remove", arg |-> RemoveArg(favorites[found])]
             ELSE [call |-> "none", arg |-> Null]

\* a call of setFavorited(id, favorited) that makes the mutateAsync call made
IssueCall(made, id, favorited) ==
    LET call == [id |-> id, favorited |-> favorited, awaits |-> made.call]
    IN  /\ CASE made.call = "add" ->
                /\ addCalls' = Append(addCalls, [arg |-> made.arg, status |-> "pending"])
                /\ removeCalls' = removeCalls
                /\ calls' = Append(calls, call @@ [mutation |-> Len(addCalls) + 1,
                                                   status |-> "awaiting"])
             [] made.call = "remove" ->
                /\ removeCalls' = Append(removeCalls, [arg |-> made.arg, status |-> "pending"])
                /\ addCalls' = addCalls
                /\ calls' = Append(calls, call @@ [mutation |-> Len(removeCalls) + 1,
                                                   status |-> "awaiting"])
             [] made.call = "none" ->
                /\ calls' = Append(calls, call @@ [mutation |-> 0, status |-> "resolved"])
                /\ UNCHANGED <<addCalls, removeCalls>>
        /\ asked' = SourceCalls(hook, props)
        /\ out' = UseHook(hook, query, favs, addCalls', removeCalls')
        /\ UNCHANGED <<hook, props, query, favs, store>>

\* SetFavorited that looks the record up in the store's present content
SetFavoritedReadsStore(id, favorited) ==
    IssueCall(Toggle(hook,
                     IF store.followed THEN Scoped(store.records, asked.favorites[3])
                     ELSE out.setFavorited.favorites,
                     id, favorited),
              id, favorited)

\* SetFavorited that returns early without a wallet address or while loading
SetFavoritedGuarded(id, favorited) ==
    IssueCall(IF props.walletAddress = Undefined \/ out.isLoading
              THEN [call |-> "none", arg |-> Null]
              ELSE Toggle(hook, out.setFavorited.favorites, id, favorited),
              id, favorited)

\* SetFavorited that replaces an existing favorite: it removes the record found
\* and adds the item again
SetFavoritedReplaces(id, favorited) ==
    LET made == Toggle(hook, out.setFavorited.favorites, id, favorited)
        found == Find(out.setFavorited.favorites, ItemIdOf(hook, id))
    IN  IF favorited /\ found # 0
        THEN /\ removeCalls' = Append(removeCalls,
                                  [arg |-> RemoveArg(out.setFavorited.favorites[found]),
                                   status |-> "success"])
             /\ addCalls' = Append(addCalls, [arg |-> made.arg, status |-> "pending"])
             /\ calls' = Append(calls, [id |-> id, favorited |-> favorited, awaits |-> "add",
                                        mutation |-> Len(addCalls) + 1, status |-> "awaiting"])
             /\ asked' = SourceCalls(hook, props)
             /\ out' = UseHook(hook, query, favs, addCalls', removeCalls')
             /\ UNCHANGED <<hook, props, query, favs, store>>
        ELSE IssueCall(made, id, favorited)

\* SetFavorited that issues nothing when the same mutation is already pending
SetFavoritedDeduplicated(id, favorited) ==
    LET toggled == Toggle(hook, out.setFavorited.favorites, id, favorited)
        log == IF toggled.call = "add" THEN addCalls ELSE removeCalls
        duplicate == /\ toggled.call # "none"
                     /\ \E i \in DOMAIN log : log[i].status = "pending" /\ log[i].arg = toggled.arg
        made == IF duplicate THEN [call |-> "none", arg |-> Null] ELSE toggled
        call == [id |-> id, favorited |-> favorited, awaits |-> made.call]
    IN  /\ CASE made.call = "add" ->
                /\ addCalls' = Append(addCalls, [arg |-> made.arg, status |-> "pending"])
                /\ removeCalls' = removeCalls
                /\ calls' = Append(calls, call @@ [mutation |-> Len(addCalls) + 1,
                                                   status |-> "awaiting"])
             [] made.call = "remove" ->
                /\ removeCalls' = Append(removeCalls, [arg |-> made.arg, status |-> "pending"])
                /\ addCalls' = addCalls
                /\ calls' = Append(calls, call @@ [mutation |-> Len(removeCalls) + 1,
                                                   status |-> "awaiting"])
             [] made.call = "none" ->
                /\ calls' = Append(calls, call @@ [mutation |-> 0, status |-> "resolved"])
                /\ UNCHANGED <<addCalls, removeCalls>>
        /\ asked' = SourceCalls(hook, props)
        /\ out' = UseHook(hook, query, favs, addCalls', removeCalls')
        /\ UNCHANGED <<hook, props, query, favs, store>>

\* a call of setFavorited(id, favorited): the body runs to its await, or to its end
SetFavorited(id, favorited) ==
    LET made == Toggle(hook, out.setFavorited.favorites, id, favorited)
        call == [id |-> id, favorited |-> favorited, awaits |-> made.call]
    IN  /\ CASE made.call = "add" ->
                /\ addCalls' = Append(addCalls, [arg |-> made.arg, status |-> "pending"])
                /\ removeCalls' = removeCalls
                /\ calls' = Append(calls, call @@ [mutation |-> Len(addCalls) + 1,
                                                   status |-> "awaiting"])
             [] made.call = "remove" ->
                /\ removeCalls' = Append(removeCalls, [arg |-> made.arg, status |-> "pending"])
                /\ addCalls' = addCalls
                /\ calls' = Append(calls, call @@ [mutation |-> Len(removeCalls) + 1,
                                                   status |-> "awaiting"])
             [] made.call = "none" ->
                /\ calls' = Append(calls, call @@ [mutation |-> 0, status |-> "resolved"])
                /\ UNCHANGED <<addCalls, removeCalls>>
        /\ asked' = SourceCalls(hook, props)
        /\ out' = UseHook(hook, query, favs, addCalls', removeCalls')
        /\ UNCHANGED <<hook, props, query, favs, store>>

\* the favorites store answers an add: the mutateAsync promise settles
AddFavoriteSettles(i, outcome) ==
    /\ i \in DOMAIN addCalls
    /\ addCalls[i].status = "pending"
    /\ addCalls' = [addCalls EXCEPT ![i].status = outcome]
    /\ asked' = SourceCalls(hook, props)
    /\ out' = UseHook(hook, query, favs, addCalls', removeCalls)
    /\ UNCHANGED <<hook, props, query, favs, calls, removeCalls, store>>

\* the favorites store answers a remove: the mutateAsync promise settles
RemoveFavoriteSettles(i, outcome) ==
    /\ i \in DOMAIN removeCalls
    /\ removeCalls[i].status = "pending"
    /\ removeCalls' = [removeCalls EXCEPT ![i].status = outcome]
    /\ asked' = SourceCalls(hook, props)
    /\ out' = UseHook(hook, query, favs, addCalls, removeCalls')
    /\ UNCHANGED <<hook, props, query, favs, calls, addCalls, store>>

\* the mutateAsync call that call c of setFavorited awaits
Awaited(c) == IF calls[c].awaits = "add" THEN addCalls[calls[c].mutation]
              ELSE removeCalls[calls[c].mutation]

\* a call of mutateAsync that is not awaited
AwaitSkipped(c) == TRUE

\* await: the body goes on only once the awaited promise has settled
AwaitReady(c) == Awaited(c).status # "pending"

\* SetFavoritedResumes with the await wrapped in a try/catch that swallows
SetFavoritedCatches(c) ==
    /\ c \in DOMAIN calls
    /\ calls[c].status = "awaiting"
    /\ AwaitReady(c)
    /\ calls' = [calls EXCEPT ![c].status = "resolved"]
    /\ UNCHANGED <<hook, props, asked, query, favs, out, addCalls, removeCalls, store>>

\* the body of call c resumes after its await and ends: the promise of
\* setFavorited resolves, or rejects with the rejection of the awaited promise
SetFavoritedResumes(c) ==
    /\ c \in DOMAIN calls
    /\ calls[c].status = "awaiting"
    /\ AwaitReady(c)
    /\ calls' = [calls EXCEPT ![c].status =
                    IF Awaited(c).status = "error" THEN "rejected" ELSE "resolved"]
    /\ UNCHANGED <<hook, props, asked, query, favs, out, addCalls, removeCalls, store>>

Outcomes == {"success", "error"}

-----------------------------------------------------------------------------
(* The favorites store: one record is created per add, the record a remove *)
(* names is deleted, and the favorites source delivers the records of the  *)
(* scope triple it was asked for.                                          *)

\* the handle the store gives its next record
NextHandle(records) ==
    IF records = <<>> THEN 1
    ELSE 1 + (CHOOSE m \in {records[i].id : i \in DOMAIN records} :
                \A i \in DOMAIN records : records[i].id <= m)

\* the record the store creates for the argument of an add
Created(records, arg) ==
    [id |-> NextHandle(records), itemId |-> arg.id,
     category |-> arg.category, subcategory |-> arg.subcategory, type |-> arg.type]

\* the store serves add i: it creates the record and the mutateAsync promise resolves
StoreCreates(i) ==
    /\ store.followed
    /\ i \in DOMAIN addCalls
    /\ addCalls[i].status = "pending"
    /\ store' = [store EXCEPT !.records = Append(@, Created(@, addCalls[i].arg))]
    /\ addCalls' = [addCalls EXCEPT ![i].status = "success"]
    /\ asked' = SourceCalls(hook, props)
    /\ out' = UseHook(hook, query, favs, addCalls', removeCalls)
    /\ UNCHANGED <<hook, props, query, favs, calls, removeCalls>>

\* the store serves remove i: it deletes the record of that handle, if it holds
\* one, and the mutateAsync promise resolves
StoreDeletes(i) ==
    /\ store.followed
    /\ i \in DOMAIN removeCalls
    /\ removeCalls[i].status = "pending"
    /\ store' = [store EXCEPT !.records = SelectSeq(@, LAMBDA r : r.id # removeCalls[i].arg)]
    /\ removeCalls' = [removeCalls EXCEPT ![i].status = "success"]
    /\ asked' = SourceCalls(hook, props)
    /\ out' = UseHook(hook, query, favs, addCalls, removeCalls')
    /\ UNCHANGED <<hook, props, query, favs, calls, addCalls>>

\* the favorites source delivers the store's records of the triple it was asked for
FavoritesRefetched ==
    /\ store.followed
    /\ favs' = SuccessFavorites(Scoped(store.records, asked.favorites[3]))
    /\ asked' = SourceCalls(hook, props)
    /\ out' = UseHook(hook, query, favs', addCalls, removeCalls)
    /\ UNCHANGED <<hook, props, query, calls, addCalls, removeCalls, store>>

-----------------------------------------------------------------------------
(* Toggling: up to MaxCalls calls of setFavorited, overlapping or not,     *)
(* while the favorites source delivers snapshots and the entity source     *)
(* delivers the hook's list.  setFavorited is the same text in every       *)
(* numeric-id hook up to the names of its constants, so one hook is        *)
(* mounted per identifier place.                                           *)

ToggleHooks ==
    {h \in Hooks : h.name \in {"useHandballLeagues", "useFootballLeagues", "useFootballTeams",
                               "useFootballMatches", "useMmaCategories"}}

ToggleQueryResults(h) == {LoadingQuery, SuccessQuery(Catalogue(h))}

Init == Mounted(ToggleHooks, {DefaultProps}) /\ store = NotFollowed

Next ==
    \/ \E q \in ToggleQueryResults(hook) : EntitySourceUpdate(q)
    \/ \E f \in FavoritesResults(hook) : FavoritesSourceUpdate(f)
    \/ \E id \in CallIdsOf(hook), favorited \in BOOLEAN :
          Len(calls) < MaxCalls /\ SetFavorited(id, favorited)
    \/ \E i \in 1..MaxCalls, outcome \in Outcomes : AddFavoriteSettles(i, outcome)
    \/ \E i \in 1..MaxCalls, outcome \in Outcomes : RemoveFavoriteSettles(i, outcome)
    \/ \E c \in 1..MaxCalls : SetFavoritedResumes(c)

Spec == Init /\ [][Next]_vars

-----------------------------------------------------------------------------
(* Rendering: any hook of the library, any results of the two sources, no  *)
(* call of setFavorited.                                                   *)

InitRender == Mounted(Hooks, {DefaultProps}) /\ store = NotFollowed

NextRender ==
    \/ \E q \in QueryResults(hook) : EntitySourceUpdate(q)
    \/ \E f \in FavoritesResults(hook) : FavoritesSourceUpdate(f)

SpecRender == InitRender /\ [][NextRender]_vars

-----------------------------------------------------------------------------
(* Arguments: any hook of the library, evaluated with any arguments and    *)
(* evaluated again with other ones, while the sources deliver and a call   *)
(* of setFavorited is made.  What the sources return does not depend on    *)
(* the arguments in the hook's own code, so a few results suffice.         *)

PropsFavoritesResults(h) ==
    {LoadingFavorites, SuccessFavorites(<<>>),
     SuccessFavorites(<<Favorite(h, 1, ItemIdList(h)[1])>>)}

InitProps == Mounted(Hooks, AllProps) /\ store = NotFollowed

NextProps ==
    \/ \E p \in AllProps : Rerender(p)
    \/ \E q \in ToggleQueryResults(hook) : EntitySourceUpdate(q)
    \/ \E f \in PropsFavoritesResults(hook) : FavoritesSourceUpdate(f)
    \/ \E id \in CallIdsOf(hook), favorited \in BOOLEAN :
          Len(calls) < MaxPropsCalls /\ SetFavorited(id, favorited)
    \/ \E i \in 1..MaxPropsCalls, outcome \in Outcomes : AddFavoriteSettles(i, outcome)
    \/ \E i \in 1..MaxPropsCalls, outcome \in Outcomes : RemoveFavoriteSettles(i, outcome)
    \/ \E c \in 1..MaxPropsCalls : SetFavoritedResumes(c)

SpecProps == InitProps /\ [][NextProps]_vars

-----------------------------------------------------------------------------
(* Round trips: the hook over a followed store.  The store holds what      *)
(* earlier sessions left in the hook's scope; the calls of setFavorited    *)
(* are served by the store and the snapshot is what the source last        *)
(* delivered of it.                                                        *)

InitStore ==
    /\ Mounted(Hooks, {DefaultProps})
    /\ store \in {Store(r) : r \in Snapshots(hook)}

NextStore ==
    \/ \E q \in ToggleQueryResults(hook) : EntitySourceUpdate(q)
    \/ FavoritesRefetched
    \/ \E id \in CallIdsOf(hook), favorited \in BOOLEAN :
          Len(calls) < MaxCalls /\ SetFavorited(id, favorited)
    \/ \E i \in 1..MaxCalls : StoreCreates(i)
    \/ \E i \in 1..MaxCalls : StoreDeletes(i)
    \/ \E c \in 1..MaxCalls : SetFavoritedResumes(c)

SpecStore == InitStore /\ [][NextStore]_vars

-----------------------------------------------------------------------------
(* Several hooks over one store.  Another hook of the library, mounted     *)
(* elsewhere for the same wallet, favorites and unfavorites its own        *)
(* entities; the store serves its mutations at once, and the mounted hook  *)
(* sees the store through the snapshots of its own scope.                  *)

\* the snapshot hook h2 holds: the store's records of the triple it asks for
SnapshotOf(h2) == Scoped(store.records, UseFavoritesArgs(h2, props)[3])

\* h2's setFavorited(id, true), served by the store
ElsewhereAdds(h2, id) ==
    LET made == Toggle(h2, SnapshotOf(h2), id, TRUE)
    IN  /\ store.followed
        /\ h2.name # hook.name
        /\ Len(store.records) < Len(store.atMount) + MaxElsewhere
        /\ made.call = "add"
        /\ store' = [store EXCEPT !.records = Append(@, Created(@, made.arg))]
        /\ UNCHANGED <<hook, props, asked, query, favs, out, calls, addCalls, removeCalls>>

\* h2's setFavorited(id, false), served by the store
ElsewhereRemoves(h2, id) ==
    LET made == Toggle(h2, SnapshotOf(h2), id, FALSE)
    IN  /\ store.followed
        /\ h2.name # hook.name
        /\ made.call = "remove"
        /\ store' = [store EXCEPT !.records = SelectSeq(@, LAMBDA r : r.id # made.arg)]
        /\ UNCHANGED <<hook, props, asked, query, favs, out, calls, addCalls, removeCalls>>

InitScopes == InitStore

NextScopes ==
    \/ \E q \in ToggleQueryResults(hook) : EntitySourceUpdate(q)
    \/ FavoritesRefetched
    \/ \E h2 \in Hooks : \E id \in CallIdsOf(h2) : ElsewhereAdds(h2, id)
    \/ \E h2 \in Hooks : \E id \in CallIdsOf(h2) : ElsewhereRemoves(h2, id)

SpecScopes == InitScopes /\ [][NextScopes]_vars

-----------------------------------------------------------------------------
(* The annotated list.                                                     *)

\* the string form of the identifier of an entity of the mounted hook
KeyOf(e) ==
    CASE hook.idPath = "id" -> String(e.id)
      [] hook.idPath = "league.id" -> String(e.league)
      [] hook.idPath = "team.id" -> String(e.team)
      [] hook.idPath = "fixture.id" -> String(e.fixture)
      [] hook.idPath = "self" -> e

\* the entity list the entity source last returned (none before a response)
Entities == IF query.data.defined THEN query.data.response ELSE <<>>

\* C1: the annotated list has one item per entity of the entity list, and the
\* item of entity e is favorited exactly when some record of the favorites
\* snapshot has itemId equal to the string form of e's id, whatever entity
\* lists and favorites snapshots the sources have delivered.
C1_AnnotatedList ==
    /\ Len(out.items) = Len(Entities)
    /\ \A i \in DOMAIN Entities :
          out.items[i].favorited <=>
              \E j \in DOMAIN favs.favorites : favs.favorites[j].itemId = KeyOf(Entities[i])

\* two entities, the first a favorite and the second not
C1_Witness ==
    /\ Len(Entities) = 2
    /\ Len(out.items) = 2
    /\ favs.favorites # <<>>
    /\ out.items[1].favorited
    /\ ~out.items[2].favorited

-----------------------------------------------------------------------------
(* setFavorited: the mutation a call issues.                               *)

\* the string form of an id given to the mounted hook's setFavorited
StringForm(id) == IF hook.idPath = "self" THEN id ELSE String(id)

\* this step is a call of setFavorited; TheCall is the call made
IsCall == Len(calls') = Len(calls) + 1
TheCall == calls'[Len(calls')]

\* the records of the hook's current snapshot that stand for id
Matching(id) ==
    {j \in DOMAIN favs.favorites : favs.favorites[j].itemId = StringForm(id)}

\* this step issued exactly one add call / one remove call, and changed no earlier one
OneMoreAdd ==
    /\ Len(addCalls') = Len(addCalls) + 1
    /\ SubSeq(addCalls', 1, Len(addCalls)) = addCalls
OneMoreRemove ==
    /\ Len(removeCalls') = Len(removeCalls) + 1
    /\ SubSeq(removeCalls', 1, Len(removeCalls)) = removeCalls

\* C2: a call setFavorited(id, true) invokes the add-favorite mutation exactly
\* once, with {category, subcategory, type, id} where the triple is the hook's
\* scope triple and id is the string form of the given id, and invokes the
\* remove-favorite mutation zero times.
C2_AddOnce ==
    [][ (IsCall /\ TheCall.favorited) =>
            /\ OneMoreAdd
            /\ addCalls'[Len(addCalls')].arg =
                  [category |-> hook.category, subcategory |-> hook.subcategory,
                   type |-> hook.type, id |-> StringForm(TheCall.id)]
            /\ removeCalls' = removeCalls ]_vars

\* setFavorited(33, true) of useHandballLeagues has issued its add, and no remove
C2_Witness ==
    /\ hook.name = "useHandballLeagues"
    /\ Len(calls) = 1
    /\ calls[1].favorited
    /\ calls[1].id = 33
    /\ Len(addCalls) = 1
    /\ addCalls[1].arg.id = "33"
    /\ addCalls[1].arg.subcategory = "handball"
    /\ removeCalls = <<>>

\* C3: a call setFavorited(id, false), made while the snapshot holds a record
\* whose itemId is the string form of id, invokes the remove-favorite mutation
\* with the handle (id) of such a record, never with the item id, and invokes
\* the add-favorite mutation zero times.
C3_RemoveByHandle ==
    [][ (IsCall /\ ~TheCall.favorited /\ Matching(TheCall.id) # {}) =>
            /\ OneMoreRemove
            /\ \E j \in Matching(TheCall.id) :
                  removeCalls'[Len(removeCalls')].arg = favs.favorites[j].id
            /\ addCalls' = addCalls ]_vars

\* setFavorited(34, false) has removed by handle: the record of "34" is the
\* second of the snapshot and its handle is 1
C3_Witness ==
    /\ hook.name = "useFootballLeagues"
    /\ Len(calls) = 1
    /\ ~calls[1].favorited
    /\ calls[1].id = 34
    /\ Len(favs.favorites) = 2
    /\ favs.favorites[2] = [id |-> 1, itemId |-> "34", category |-> "sports",
                             subcategory |-> "football", type |-> "league"]
    /\ favs.favorites[1].itemId = "33"
    /\ Len(removeCalls) = 1
    /\ removeCalls[1].arg = 1
    /\ addCalls = <<>>

\* C4: a call setFavorited(id, false), made while the snapshot holds no record
\* whose itemId is the string form of id, invokes neither mutation, and its
\* promise resolves without error.
C4_NoOpOnMiss ==
    [][ (IsCall /\ ~TheCall.favorited /\ Matching(TheCall.id) = {}) =>
            /\ addCalls' = addCalls
            /\ removeCalls' = removeCalls
            /\ TheCall.status = "resolved" ]_vars

\* setFavorited(34, false) has resolved against a snapshot that holds only "33"
C4_Witness ==
    /\ hook.name = "useFootballTeams"
    /\ Len(calls) = 1
    /\ ~calls[1].favorited
    /\ calls[1].id = 34
    /\ calls[1].status = "resolved"
    /\ Len(favs.favorites) = 1
    /\ favs.favorites[1].itemId = "33"
    /\ addCalls = <<>>
    /\ removeCalls = <<>>

\* the calls of setFavorited made with favorited = true
AddingCalls == {c \in DOMAIN calls : calls[c].favorited}

\* C5: setFavorited(id, true) issues an add call whatever the state is, also
\* when the snapshot already holds a record for id, so that n calls of
\* setFavorited(id, true) have issued n add calls.
C5_AddAlways ==
    /\ [](Len(addCalls) = Cardinality(AddingCalls))
    /\ [][ (IsCall /\ TheCall.favorited /\ Matching(TheCall.id) # {}) =>
              /\ OneMoreAdd
              /\ addCalls'[Len(addCalls')].arg.id = StringForm(TheCall.id) ]_vars

\* two calls setFavorited(33, true), the first awaited, have issued two adds
\* of "33" while the snapshot holds a record of "33"
C5_Witness ==
    /\ hook.name = "useFootballMatches"
    /\ Len(calls) = 2
    /\ calls[1].favorited /\ calls[1].id = 33 /\ calls[1].status = "resolved"
    /\ calls[2].favorited /\ calls[2].id = 33
    /\ \E j \in DOMAIN favs.favorites : favs.favorites[j].itemId = "33"
    /\ Len(addCalls) = 2
    /\ addCalls[1].arg.id = "33"
    /\ addCalls[2].arg.id = "33"

-----------------------------------------------------------------------------
(* The status the hook reports.                                            *)

\* C6: the hook's isLoading is TRUE exactly when the entity fetch is loading or
\* the favorites fetch is loading; a pending add or remove mutation does not by
\* itself make it TRUE.
C6_IsLoading == out.isLoading <=> (query.isLoading \/ favs.isLoading)

\* an add mutation is pending, neither fetch is loading, isLoading is FALSE
C6_Witness ==
    /\ \E i \in DOMAIN addCalls : addCalls[i].status = "pending"
    /\ out.addFavoritePending
    /\ ~query.isLoading
    /\ ~favs.isLoading
    /\ ~out.isLoading

\* C7: the hook's isError and error are the entity fetch's isError and error,
\* whatever the favorites fetch's isError and error are: a failed favorites
\* fetch with a successful entity fetch gives isError = FALSE and error = null.
C7_EntityErrorOnly ==
    /\ out.isError = query.isError
    /\ out.error = query.error
    /\ (favs.isError /\ ~query.isError /\ query.error = Null) =>
          (out.isError = FALSE /\ out.error = Null)

\* the favorites fetch has failed, the entity fetch has delivered its list
C7_Witness ==
    /\ favs.isError
    /\ favs.error \in Errors
    /\ query.data.defined
    /\ Len(query.data.response) = 2
    /\ ~query.isError
    /\ ~out.isError
    /\ out.error = Null

\* C8: when the entity fetch has delivered no data, the annotated list is empty
\* and isError is what the entity fetch reports, for every favorites snapshot.
C8_NoData ==
    ~query.data.defined => (out.items = <<>> /\ out.isError = query.isError)

\* no data, no error of the entity fetch, a favorites snapshot of two records
C8_Witness ==
    /\ query = IdleQuery
    /\ Len(favs.favorites) = 2
    /\ out.items = <<>>
    /\ ~out.isError

-----------------------------------------------------------------------------
(* setFavorited: what a call changes, and when it resolves.                *)

\* C9: no optimistic update.  A step of a setFavorited call (the call, the
\* settling of its mutation, its resolution) leaves the annotated list as it
\* was; the list changes only in a step in which the favorites source
\* delivers another snapshot or the entity source another list.
C9_NoOptimisticUpdate ==
    [][ /\ (calls' # calls \/ addCalls' # addCalls \/ removeCalls' # removeCalls) =>
              out'.items = out.items
        /\ out'.items # out.items =>
              (favs'.favorites # favs.favorites \/ query'.data # query.data) ]_vars

\* setFavorited(33, true) has resolved after a successful add, the snapshot has
\* not been delivered again, and entity 33 is still shown as not favorited
C9_Witness ==
    /\ hook.name = "useHandballLeagues"
    /\ Len(calls) = 1
    /\ calls[1].favorited /\ calls[1].id = 33 /\ calls[1].status = "resolved"
    /\ addCalls[1].status = "success"
    /\ query.data.defined
    /\ ~favs.isLoading /\ favs.favorites = <<>>
    /\ Len(out.items) = 2
    /\ out.items[1].id = 33
    /\ ~out.items[1].favorited

\* the state of the mutateAsync call that call c of setFavorited issued
MutationOf(c) ==
    IF calls[c].awaits = "add" THEN addCalls[calls[c].mutation].status
    ELSE removeCalls[calls[c].mutation].status

\* C10: setFavorited resolves only after the mutation it issued has completed:
\* no call is resolved (or rejected) while its add or remove is pending, so a
\* call made after awaiting an earlier one issues its mutation after the
\* earlier mutation completed.
C10_ResolvesAfterMutation ==
    \A c \in DOMAIN calls :
        (calls[c].awaits # "none" /\ calls[c].status # "awaiting") =>
            MutationOf(c) # "pending"

\* a first call has resolved after its add succeeded, and a second call, made
\* after it, has its remove pending
C10_Witness ==
    /\ Len(calls) = 2
    /\ calls[1].awaits = "add" /\ calls[1].status = "resolved"
    /\ addCalls[1].status = "success"
    /\ calls[2].awaits = "remove" /\ calls[2].status = "awaiting"
    /\ removeCalls[1].status = "pending"

-----------------------------------------------------------------------------
(* Failures.                                                               *)

\* the calls of setFavorited that issued a mutation
IssuingCalls == {c \in DOMAIN calls : calls[c].awaits # "none"}

\* this step is the rejection of a pending mutation, or of a call of setFavorited
IsRejection ==
    \/ \E i \in DOMAIN addCalls : addCalls[i].status = "pending" /\ addCalls'[i].status = "error"
    \/ \E i \in DOMAIN removeCalls :
          removeCalls[i].status = "pending" /\ removeCalls'[i].status = "error"
    \/ \E c \in DOMAIN calls : calls[c].status = "awaiting" /\ calls'[c].status = "rejected"

\* C11: when the add or remove mutation a call of setFavorited issued rejects,
\* the call's promise rejects (it never resolves); the rejection is followed by
\* no further mutation call (no retry, no compensating call: every call has
\* issued at most its one mutation), and it leaves the annotated list as it was.
C11_RejectionPropagates ==
    /\ [](\A c \in IssuingCalls :
            calls[c].status # "awaiting" =>
                (calls[c].status = "rejected" <=> MutationOf(c) = "error"))
    /\ [](Len(addCalls) + Len(removeCalls) = Cardinality(IssuingCalls))
    /\ [][ IsRejection =>
              /\ Len(addCalls') = Len(addCalls)
              /\ Len(removeCalls') = Len(removeCalls)
              /\ out'.items = out.items ]_vars

\* setFavorited(34, false) has been rejected after its remove failed; no other
\* mutation was issued and entity 34 is still shown as a favorite
C11_Witness ==
    /\ hook.name = "useFootballTeams"
    /\ Len(calls) = 1
    /\ ~calls[1].favorited /\ calls[1].id = 34 /\ calls[1].status = "rejected"
    /\ Len(removeCalls) = 1
    /\ removeCalls[1].status = "error"
    /\ addCalls = <<>>
    /\ Len(out.items) = 2
    /\ out.items[2].team = 34
    /\ out.items[2].favorited

-----------------------------------------------------------------------------
(* Scope, concurrency and effects.                                         *)

\* the scope triple of the mounted hook
ScopeTriple == [category |-> hook.category, subcategory |-> hook.subcategory, type |-> hook.type]

\* the scope triple an add call carries
TripleOf(arg) == [category |-> arg.category, subcategory |-> arg.subcategory, type |-> arg.type]

\* C13: scope invariance.  In every evaluation the favorites source is called
\* with the client handle and the wallet address the hook was given and with the
\* hook's scope triple; the triple is the same in every evaluation, whatever
\* arguments the hook is given; and every add call carries that triple.
C13_ScopeInvariance ==
    /\ [](asked.favorites = <<props.indexerClient, props.walletAddress, ScopeTriple>>)
    /\ [](\A i \in DOMAIN addCalls : TripleOf(addCalls[i].arg) = ScopeTriple)
    /\ [][asked'.favorites[3] = asked.favorites[3]]_vars

\* useVolleyballGames, evaluated with the other client and no wallet address,
\* has issued an add: the query and the add both carry sports/volleyball/game
C13_Witness ==
    /\ hook.name = "useVolleyballGames"
    /\ props.indexerClient = "otherIndexerClient"
    /\ props.walletAddress = Undefined
    /\ asked.favorites[1] = "otherIndexerClient"
    /\ asked.favorites[2] = Undefined
    /\ asked.favorites[3] = [category |-> "sports", subcategory |-> "volleyball", type |-> "game"]
    /\ Len(addCalls) = 1
    /\ TripleOf(addCalls[1].arg) = asked.favorites[3]

\* some earlier call of setFavorited is still waiting for its pending mutation
Overlapping ==
    \E c \in DOMAIN calls : calls[c].status = "awaiting" /\ MutationOf(c) = "pending"

\* the first record of the current snapshot that stands for id
FirstMatching(id) == CHOOSE j \in Matching(id) : \A k \in Matching(id) : j <= k

\* C14: a call of setFavorited made while an earlier call's mutation is pending
\* issues its own mutation in the same step, exactly as it would alone: an add
\* for favorited = TRUE, a remove by the handle of the first matching record of
\* the snapshot for favorited = FALSE; the earlier pending mutations stay as
\* they are (none is cancelled or replaced), so two overlapping calls
\* setFavorited(id, false) against one snapshot issue two removes with the
\* same handle.
C14_Uncoordinated ==
    [][ (IsCall /\ Overlapping) =>
            /\ TheCall.favorited =>
                  /\ OneMoreAdd
                  /\ addCalls'[Len(addCalls')] =
                        [arg |-> ScopeTriple @@ [id |-> StringForm(TheCall.id)],
                         status |-> "pending"]
                  /\ removeCalls' = removeCalls
            /\ (~TheCall.favorited /\ Matching(TheCall.id) # {}) =>
                  /\ OneMoreRemove
                  /\ removeCalls'[Len(removeCalls')] =
                        [arg |-> favs.favorites[FirstMatching(TheCall.id)].id,
                         status |-> "pending"]
                  /\ addCalls' = addCalls ]_vars

\* two calls setFavorited(33, false) overlap: both removes are pending and both
\* carry the handle of the one record of "33"
C14_Witness ==
    /\ hook.name = "useFootballLeagues"
    /\ Len(calls) = 2
    /\ ~calls[1].favorited /\ calls[1].id = 33 /\ calls[1].status = "awaiting"
    /\ ~calls[2].favorited /\ calls[2].id = 33 /\ calls[2].status = "awaiting"
    /\ Len(removeCalls) = 2
    /\ removeCalls[1].status = "pending"
    /\ removeCalls[2].status = "pending"
    /\ removeCalls[1].arg = removeCalls[2].arg
    /\ Len(favs.favorites) = 1
    /\ favs.favorites[1].itemId = "33"
    /\ favs.favorites[1].id = removeCalls[1].arg

\* C15: the add and remove calls issued inside setFavorited are the hook's only
\* effects on the favorites store: a mutation call is issued only in a step
\* that is a call of setFavorited, and an evaluation of the hook (after other
\* arguments, another entity-fetch result or another favorites result) leaves
\* both call logs as they were.
C15_OnlySetFavoritedMutates ==
    [][ /\ (Len(addCalls') # Len(addCalls) \/ Len(removeCalls') # Len(removeCalls)) => IsCall
        /\ (props' # props \/ query' # query \/ favs' # favs) =>
              (addCalls' = addCalls /\ removeCalls' = removeCalls) ]_vars

\* the list has been recomputed from a delivered list and a delivered snapshot,
\* under arguments other than the first ones, and no mutation was ever issued
C15_Witness ==
    /\ props.options.defined
    /\ query.data.defined
    /\ favs.favorites # <<>>
    /\ Len(out.items) = 2
    /\ out.items[1].favorited
    /\ calls = <<>>
    /\ addCalls = <<>>
    /\ removeCalls = <<>>

-----------------------------------------------------------------------------
(* The returned object, field by field.                                    *)

\* C16: the annotated list is aligned with the entity list and alters no
\* entity: item i has exactly the fields of entity i, each with the entity's
\* value, and the field favorited (an MMA category, a string, is kept as the
\* item's name); the entity list and the favorites snapshot the hook was
\* given are as delivered: no entity has gained a favorited field and every
\* favorite record has its five fields.
C16_AlignedAndUnaltered ==
    /\ Len(out.items) = Len(Entities)
    /\ \A i \in DOMAIN Entities :
          IF hook.idPath = "self"
          THEN /\ out.items[i].name = Entities[i]
               /\ Entities[i] \in CategoryNames
          ELSE /\ DOMAIN out.items[i] = DOMAIN Entities[i] \cup {"favorited"}
               /\ "favorited" \notin DOMAIN Entities[i]
               /\ \A k \in DOMAIN Entities[i] : out.items[i][k] = Entities[i][k]
    /\ \A j \in DOMAIN favs.favorites :
          DOMAIN favs.favorites[j] = {"id", "itemId", "category", "subcategory", "type"}

\* teams 33 and 34 with the one favorite {id: 1, itemId: "33"}: the items are
\* the two teams in order, with their other fields, 33 favorited and 34 not
C16_Witness ==
    /\ hook.name = "useFootballTeams"
    /\ Len(Entities) = 2
    /\ Entities[1].team = 33 /\ Entities[2].team = 34
    /\ Len(favs.favorites) = 1
    /\ favs.favorites[1].id = 1 /\ favs.favorites[1].itemId = "33"
    /\ out.items[1].team = 33 /\ out.items[1].id = Entities[1].id /\ out.items[1].favorited
    /\ out.items[2].team = 34 /\ out.items[2].id = Entities[2].id /\ ~out.items[2].favorited

\* C17: the entity source is called with one argument, the options the hook
\* was given, unchanged, also when no options were given; neither the client
\* handle nor the wallet address is passed to it.
C17_OptionsPassedThrough ==
    /\ Len(asked.api) = 1
    /\ asked.api[1] = props.options
    /\ ~props.options.defined => asked.api = <<NoOptions>>

\* the hook has been evaluated without options and with no wallet address,
\* after a list was delivered: the entity source was called with undefined
C17_Witness ==
    /\ ~props.options.defined
    /\ props.walletAddress = Undefined
    /\ props.indexerClient = "otherIndexerClient"
    /\ query.data.defined
    /\ asked.api = <<NoOptions>>

\* a mutateAsync call of the log is pending
SomePending(log) == \E i \in DOMAIN log : log[i].status = "pending"

\* C18: favoritesLoading, addFavoritePending and removeFavoritePending are the
\* favorites source's isLoading, addFavorite.isPending and
\* removeFavorite.isPending, each whatever the other two and the entity fetch are.
C18_PendingFlags ==
    /\ out.favoritesLoading = favs.isLoading
    /\ out.addFavoritePending = SomePending(addCalls)
    /\ out.removeFavoritePending = SomePending(removeCalls)

\* an add is pending and no remove is, the favorites are delivered and the
\* entity fetch is in flight: only addFavoritePending is TRUE
C18_Witness ==
    /\ SomePending(addCalls)
    /\ ~SomePending(removeCalls)
    /\ removeCalls # <<>>
    /\ ~favs.isLoading
    /\ query.isLoading
    /\ out.addFavoritePending
    /\ ~out.removeFavoritePending
    /\ ~out.favoritesLoading

-----------------------------------------------------------------------------
(* Statelessness.                                                          *)

\* whether the current snapshot holds a record for entity e
InSnapshot(e) == \E j \in DOMAIN favs.favorites : favs.favorites[j].itemId = KeyOf(e)

\* the returned object as a function of the current results of the two sources
FromSources ==
    [items |-> [i \in DOMAIN Entities |->
                  IF hook.idPath = "self"
                  THEN [name |-> Entities[i], favorited |-> InSnapshot(Entities[i])]
                  ELSE [id |-> Entities[i].id, league |-> Entities[i].league,
                        team |-> Entities[i].team, fixture |-> Entities[i].fixture,
                        favorited |-> InSnapshot(Entities[i])]],
     isLoading |-> query.isLoading \/ favs.isLoading,
     isError |-> query.isError,
     error |-> query.error,
     setFavorited |-> [favorites |-> favs.favorites],
     favoritesLoading |-> favs.isLoading,
     addFavoritePending |-> SomePending(addCalls),
     removeFavoritePending |-> SomePending(removeCalls)]

\* the results of the two sources are the same before and after this step
SameInputs ==
    /\ query' = query
    /\ favs' = favs
    /\ SomePending(addCalls') = SomePending(addCalls)
    /\ SomePending(removeCalls') = SomePending(removeCalls)

-----------------------------------------------------------------------------
(* The exports of index.ts.                                                *)

DecimalDigits == {"0", "1", "2", "3", "4", "5", "6", "7", "8", "9"}

\* \d+
IsDigits(s) == Len(s) >= 1 /\ \A i \in 1..Len(s) : SubSeq(s, i, i) \in DecimalDigits

\* /^\d+\.\d+\.\d+$/
MatchesVersionFormat(s) ==
    \E i, j \in 1..Len(s) :
        /\ i < j
        /\ SubSeq(s, i, i) = "."
        /\ SubSeq(s, j, j) = "."
        /\ IsDigits(SubSeq(s, 1, i - 1))
        /\ IsDigits(SubSeq(s, i + 1, j - 1))
        /\ IsDigits(SubSeq(s, j + 1, Len(s)))

\* C20: the exported placeholder has name '@heavymath/lib', its version field
\* is the exported VERSION, and VERSION is a string of the form
\* digits.digits.digits, whichever hook of the library is in use.
C20_Placeholder ==
    /\ hook \in Hooks
    /\ placeholder.name = "@heavymath/lib"
    /\ placeholder.version = VERSION
    /\ MatchesVersionFormat(VERSION)
    /\ MatchesVersionFormat(placeholder.version)

\* the library is loaded with a hook mounted: the placeholder carries 0.0.1
C20_Witness ==
    /\ hook \in Hooks
    /\ out.items # <<>>
    /\ VERSION = "0.0.1"
    /\ placeholder.version = "0.0.1"
    /\ ~MatchesVersionFormat("0.0.") /\ ~MatchesVersionFormat("0..1") /\ ~MatchesVersionFormat("v0.0.1")

-----------------------------------------------------------------------------
(* Round trips through the store.                                          *)

\* the id a caller passes to setFavorited for entity e of the mounted hook
IdToPass(e) ==
    CASE hook.idPath = "id" -> e.id
      [] hook.idPath = "league.id" -> e.league
      [] hook.idPath = "team.id" -> e.team
      [] hook.idPath = "fixture.id" -> e.fixture
      [] hook.idPath = "self" -> e

\* the records of the hook's scope among the given ones that stand for entity e
RecordsOf(records, e) ==
    {j \in DOMAIN records :
        /\ records[j].itemId = KeyOf(e)
        /\ [category |-> records[j].category, subcategory |-> records[j].subcategory,
            type |-> records[j].type] = ScopeTriple}

\* the snapshot the hook holds is the store's present content of its scope
Fresh == ~favs.isLoading /\ favs.favorites = Scoped(store.records, ScopeTriple)

\* call c of setFavorited was setFavorited(id, favorited) and has completed
Completed(c, id, favorited) ==
    /\ c \in DOMAIN calls
    /\ calls[c].id = id
    /\ calls[c].favorited = favorited
    /\ calls[c].status = "resolved"

\* C21: toggle round trip.  For every hook and every entity e of its list, with
\* x the id the annotation reads from e and a store with no record for x when
\* the hook was mounted: once setFavorited(x, true) has completed and the
\* source has delivered the store's content again, e.favorited is TRUE; once a
\* following setFavorited(x, false), made on that snapshot, has completed too
\* and the source has delivered again, e.favorited is FALSE.
C21_RoundTrip ==
    \A i \in DOMAIN Entities :
        LET e == Entities[i]
            x == IdToPass(e)
        IN  (Fresh /\ RecordsOf(store.atMount, e) = {} /\ Completed(1, x, TRUE)) =>
                /\ Len(calls) = 1 => out.items[i].favorited
                /\ (Completed(2, x, FALSE) /\ calls[2].awaits = "remove") =>
                      ~out.items[i].favorited

\* useFootballMatches, fixture 34, a store that held only a record of "33":
\* favorite then unfavorite have completed, the snapshot is the store's
\* content again, and fixture 34 is not a favorite while 33 still is
C21_Witness ==
    /\ hook.name = "useFootballMatches"
    /\ Len(store.atMount) = 1 /\ store.atMount[1].itemId = "33"
    /\ Completed(1, 34, TRUE)
    /\ Completed(2, 34, FALSE)
    /\ calls[2].awaits = "remove"
    /\ addCalls[1].status = "success"
    /\ removeCalls[1].status = "success"
    /\ Fresh
    /\ Len(out.items) = 2
    /\ out.items[1].fixture = 33 /\ out.items[1].favorited
    /\ out.items[2].fixture = 34 /\ ~out.items[2].favorited

-----------------------------------------------------------------------------
(* Where the identifier is read.                                           *)

\* the location fixed for the entity shape of the mounted (numeric-id) hook
DesignatedId(e) ==
    CASE hook.name \in {"useFootballLeagues", "useNflLeagues"} -> e.league
      [] hook.name = "useFootballTeams" -> e.team
      [] hook.name = "useFootballMatches" -> e.fixture
      [] OTHER -> e.id

\* the itemIds of the snapshot the hook holds
ItemIds == {favs.favorites[j].itemId : j \in DOMAIN favs.favorites}

\* the id fields of an entity
IdFields(e) == {e.id, e.league, e.team, e.fixture}

\* C22: a numeric-id hook reads the identifier from the location fixed for its
\* entity shape (league.id for football and NFL leagues, team.id for football
\* teams, fixture.id for football matches, id for every other hook): an item
\* is favorited exactly when the string form of the id at that location is an
\* itemId of the snapshot, so an entity whose other id fields match an itemId
\* and whose designated one does not is not favorited; and setFavorited called
\* with the id at that location of an entity adds the very string the
\* annotation looks up for that entity.
C22_IdLocation ==
    hook.idPath # "self" =>
        /\ \A i \in DOMAIN Entities :
              /\ out.items[i].favorited <=> String(DesignatedId(Entities[i])) \in ItemIds
              /\ ( /\ String(DesignatedId(Entities[i])) \notin ItemIds
                   /\ \E y \in IdFields(Entities[i]) : String(y) \in ItemIds )
                    => ~out.items[i].favorited
        /\ \A c \in DOMAIN calls, i \in DOMAIN Catalogue(hook) :
              (calls[c].favorited /\ calls[c].id = DesignatedId(Catalogue(hook)[i])) =>
                  addCalls[calls[c].mutation].arg.id = EntityKey(hook, Catalogue(hook)[i])

\* useFootballTeams with a favorite of "33": team 33 is favorited; team 34,
\* whose top-level id is 33, is not; setFavorited(34, true) has added "34"
C22_Witness ==
    /\ hook.name = "useFootballTeams"
    /\ ItemIds = {"33"}
    /\ Len(out.items) = 2
    /\ out.items[1].team = 33 /\ out.items[1].favorited
    /\ out.items[2].team = 34 /\ out.items[2].id = 33 /\ ~out.items[2].favorited
    /\ Len(calls) = 1
    /\ calls[1].favorited /\ calls[1].id = 34
    /\ addCalls[1].arg.id = "34"

-----------------------------------------------------------------------------
(* MMA categories.                                                         *)

\* C23: for useMmaCategories the entity is the category name itself: item i is
\* exactly {name, favorited}, name the i-th name and favorited TRUE iff some
\* record of the snapshot has that name as itemId; setFavorited(name, true)
\* adds with id the name as given; setFavorited(name, false) removes a record
\* whose itemId is the name.
C23_MmaCategories ==
    /\ [](hook.name = "useMmaCategories" =>
            \A i \in DOMAIN Entities :
                out.items[i] = [name |-> Entities[i], favorited |-> (Entities[i] \in ItemIds)])
    /\ [][ (hook.name = "useMmaCategories" /\ IsCall) =>
              /\ TheCall.favorited =>
                    (OneMoreAdd /\ addCalls'[Len(addCalls')].arg.id = TheCall.id)
              /\ (~TheCall.favorited /\ TheCall.id \in ItemIds) =>
                    /\ OneMoreRemove
                    /\ \E j \in DOMAIN favs.favorites :
                          /\ favs.favorites[j].itemId = TheCall.id
                          /\ favs.favorites[j].id = removeCalls'[Len(removeCalls')].arg ]_vars

\* Flyweight is a favorite and Heavyweight is not; setFavorited("Heavyweight",
\* true) has added "Heavyweight" and setFavorited("Flyweight", false) has
\* removed the record of Flyweight by its handle
C23_Witness ==
    /\ hook.name = "useMmaCategories"
    /\ out.items = <<[name |-> "Flyweight", favorited |-> TRUE],
                     [name |-> "Heavyweight", favorited |-> FALSE]>>
    /\ Len(favs.favorites) = 1
    /\ favs.favorites[1].itemId = "Flyweight"
    /\ Len(addCalls) = 1
    /\ addCalls[1].arg.id = "Heavyweight"
    /\ Len(removeCalls) = 1
    /\ removeCalls[1].arg = favs.favorites[1].id

-----------------------------------------------------------------------------
(* What a call of setFavorited reads and issues.                           *)

\* the store holds a record of the hook's scope for the id
InStore(id) ==
    \E j \in DOMAIN store.records :
        /\ store.records[j].itemId = StringForm(id)
        /\ [category |-> store.records[j].category, subcategory |-> store.records[j].subcategory,
            type |-> store.records[j].type] = ScopeTriple

\* C24: setFavorited(id, false) decides from the snapshot the hook last
\* received, not from the store: when the store holds a favorite for id and
\* the snapshot holds none, the call issues no remove (and no add), resolves,
\* and leaves the store as it is.
C24_DecidesFromSnapshot ==
    [][ (IsCall /\ ~TheCall.favorited /\ Matching(TheCall.id) = {} /\ InStore(TheCall.id)) =>
            /\ removeCalls' = removeCalls
            /\ addCalls' = addCalls
            /\ TheCall.status = "resolved"
            /\ TheCall.awaits = "none"
            /\ store' = store ]_vars

\* the add of "33" has completed and the store holds its record, the snapshot
\* delivered before it is still empty: setFavorited(33, false) has resolved
\* without a remove and the record is still in the store
C24_Witness ==
    /\ hook.name = "useHandballLeagues"
    /\ store.atMount = <<>>
    /\ Completed(1, 33, TRUE)
    /\ addCalls[1].status = "success"
    /\ Completed(2, 33, FALSE)
    /\ calls[2].awaits = "none"
    /\ removeCalls = <<>>
    /\ ~favs.isLoading /\ favs.favorites = <<>>
    /\ InStore(33)

\* C25: every remove call the hook issues is issued by a call
\* setFavorited(id, false) and carries the handle of a record that is in the
\* snapshot at that moment and whose itemId is the string form of id; it is
\* the handle of no record of another item, and never a value that is not a
\* handle of the snapshot.
C25_RemovesOwnRecords ==
    [][ Len(removeCalls') > Len(removeCalls) =>
            /\ IsCall
            /\ ~TheCall.favorited
            /\ OneMoreRemove
            /\ \E j \in DOMAIN favs.favorites :
                  /\ favs.favorites[j].id = removeCalls'[Len(removeCalls')].arg
                  /\ favs.favorites[j].itemId = StringForm(TheCall.id)
            /\ \A j \in DOMAIN favs.favorites :
                  favs.favorites[j].id = removeCalls'[Len(removeCalls')].arg =>
                      favs.favorites[j].itemId = StringForm(TheCall.id) ]_vars

\* the snapshot holds a record of "33" (handle 2) before the record of "34"
\* (handle 1): setFavorited(34, false) has removed handle 1
C25_Witness ==
    /\ hook.name = "useFootballMatches"
    /\ Len(favs.favorites) = 2
    /\ favs.favorites[1].itemId = "33" /\ favs.favorites[1].id = 2
    /\ favs.favorites[2].itemId = "34" /\ favs.favorites[2].id = 1
    /\ Len(calls) = 1
    /\ calls[1].id = 34 /\ ~calls[1].favorited
    /\ Len(removeCalls) = 1
    /\ removeCalls[1].arg = 1

\* C26: one call of setFavorited issues at most one mutation call in all:
\* a step issues at most one call of add and remove together, and only a
\* step that is a call of setFavorited issues one, so the mutation calls
\* never outnumber the calls of setFavorited.
C26_AtMostOneMutation ==
    /\ [](Len(addCalls) + Len(removeCalls) <= Len(calls))
    /\ [][ /\ Len(addCalls') >= Len(addCalls)
           /\ Len(removeCalls') >= Len(removeCalls)
           /\ (Len(addCalls') - Len(addCalls)) + (Len(removeCalls') - Len(removeCalls))
                 <= (IF IsCall THEN 1 ELSE 0) ]_vars

\* setFavorited(33, true) while "33" is in the snapshot, and then
\* setFavorited(33, false): one add and one remove for two calls
C26_Witness ==
    /\ hook.name = "useFootballTeams"
    /\ \E j \in DOMAIN favs.favorites : favs.favorites[j].itemId = "33"
    /\ Len(calls) = 2
    /\ calls[1].id = 33 /\ calls[1].favorited /\ calls[1].awaits = "add"
    /\ calls[2].id = 33 /\ ~calls[2].favorited /\ calls[2].awaits = "remove"
    /\ Len(addCalls) = 1
    /\ Len(removeCalls) = 1

-----------------------------------------------------------------------------
(* Duplicate records.                                                      *)

\* the calls setFavorited(id, false) whose remove the store has served
Served(id) ==
    {c \in DOMAIN calls :
        /\ calls[c].id = id
        /\ ~calls[c].favorited
        /\ calls[c].awaits = "remove"
        /\ removeCalls[calls[c].mutation].status = "success"}

\* C27: when the snapshot holds several records of one itemId, one call
\* setFavorited(id, false) issues one remove, with the handle of the first of
\* them in snapshot order; a served remove deletes at most one record; so with
\* a store that held two or more records of the entity when the hook was
\* mounted and no add since, after the source has delivered the store's
\* content again the entity is favorited as long as one of these records has
\* not been removed by a served call: it is still TRUE after one round, and
\* it is FALSE only after at least as many served calls as there were records.
C27_Duplicates ==
    /\ [][ /\ (IsCall /\ ~TheCall.favorited /\ Cardinality(Matching(TheCall.id)) >= 2) =>
                 /\ OneMoreRemove
                 /\ removeCalls'[Len(removeCalls')].arg
                       = favs.favorites[FirstMatching(TheCall.id)].id
           /\ Len(store'.records) >= Len(store.records) - 1 ]_vars
    /\ [](\A i \in DOMAIN Entities :
            LET e == Entities[i]
                x == IdToPass(e)
                D == RecordsOf(store.atMount, e)
            IN  (Cardinality(D) >= 2 /\ addCalls = <<>> /\ Fresh) =>
                    /\ out.items[i].favorited <=>
                          \E j \in D : \A c \in Served(x) :
                              removeCalls[calls[c].mutation].arg # store.atMount[j].id
                    /\ Cardinality(Served(x)) <= 1 => out.items[i].favorited
                    /\ ~out.items[i].favorited => Cardinality(Served(x)) >= Cardinality(D))

\* the store held two records of "33": two calls setFavorited(33, false), the
\* second on the snapshot delivered after the first, have removed one record
\* each, and only now league 33 is not a favorite
C27_Witness ==
    /\ hook.name = "useHandballLeagues"
    /\ Len(store.atMount) = 2
    /\ store.atMount[1].itemId = "33" /\ store.atMount[2].itemId = "33"
    /\ Completed(1, 33, FALSE) /\ Completed(2, 33, FALSE)
    /\ Served(33) = {1, 2}
    /\ removeCalls[1].arg = store.atMount[1].id
    /\ removeCalls[2].arg = store.atMount[2].id
    /\ Fresh
    /\ store.records = <<>>
    /\ \E i \in DOMAIN out.items : out.items[i].id = 33 /\ ~out.items[i].favorited

-----------------------------------------------------------------------------
(* No guard on the wallet address or on loading.                           *)

\* C29: setFavorited has no guard on the wallet address or on loading: a call
\* setFavorited(id, true) made while walletAddress is undefined or while a
\* fetch is loading still issues its add call, with the hook's triple and the
\* string form of id; and an undefined walletAddress is what the favorites
\* source is called with.
C29_NoGuard ==
    /\ [][ (IsCall /\ TheCall.favorited
              /\ (props.walletAddress = Undefined \/ favs.isLoading \/ query.isLoading)) =>
                /\ OneMoreAdd
                /\ addCalls'[Len(addCalls')].arg = ScopeTriple @@ [id |-> StringForm(TheCall.id)]
                /\ addCalls'[Len(addCalls')].status = "pending"
                /\ TheCall.awaits = "add" ]_vars
    /\ [](props.walletAddress = Undefined => asked.favorites[2] = Undefined)

\* no wallet address and both fetches in flight: setFavorited(33, true) has
\* issued the add of "33", and the favorites source was called with undefined
C29_Witness ==
    /\ hook.name = "useRugbyLeagues"
    /\ props.walletAddress = Undefined
    /\ asked.favorites[2] = Undefined
    /\ query = LoadingQuery
    /\ favs = LoadingFavorites
    /\ Len(calls) = 1
    /\ calls[1].id = 33 /\ calls[1].favorited /\ calls[1].awaits = "add"
    /\ Len(addCalls) = 1
    /\ addCalls[1].arg.id = "33"

-----------------------------------------------------------------------------
(* Scopes of different hooks.                                              *)

\* the records other hooks have in the store for the id of entity e
ElsewhereRecords(e) ==
    {j \in DOMAIN store.records :
        /\ store.records[j].itemId = KeyOf(e)
        /\ [category |-> store.records[j].category,
            subcategory |-> store.records[j].subcategory,
            type |-> store.records[j].type] # ScopeTriple}

\* C28: no other hook of the library asks for or writes the scope triple of
\* the mounted hook; so over a store that delivers records by triple, a
\* favorite another hook adds or removes, for whatever id, leaves the records
\* of the mounted hook's scope as they are, and once the source has delivered
\* the store's content again every entity of the mounted hook's list is
\* favorited exactly when the store held a record of its scope for it before
\* the other hooks acted.
C28_ScopesApart ==
    /\ [](\A h2 \in Hooks :
            h2.name # hook.name =>
                /\ UseFavoritesArgs(h2, props)[3] # asked.favorites[3]
                /\ \A id \in CallIdsOf(h2) :
                      TripleOf(AddArg(h2, ItemIdOf(h2, id))) # ScopeTriple)
    /\ [][ store'.records # store.records =>
              Scoped(store'.records, ScopeTriple) = Scoped(store.records, ScopeTriple) ]_vars
    /\ [](Fresh =>
            \A i \in DOMAIN Entities :
                out.items[i].favorited <=> RecordsOf(store.atMount, Entities[i]) # {})

\* useFootballLeagues over a store that was empty: useFootballTeams has made
\* team 33 a favorite, the source has delivered again, and league 33 is not a
\* favorite
C28_Witness ==
    /\ hook.name = "useFootballLeagues"
    /\ store.atMount = <<>>
    /\ Len(store.records) = 1
    /\ store.records[1].itemId = "33"
    /\ store.records[1].subcategory = "football"
    /\ store.records[1].type = "team"
    /\ Fresh
    /\ Len(out.items) = 2
    /\ out.items[1].league = 33
    /\ ElsewhereRecords(Entities[1]) = {1}
    /\ ~out.items[1].favorited

====
